---------------------------- MODULE Spec2Model ----------------------------
(***************************************************************************)
(* Prompt-to-screen generation pipeline of the AI mobile screen builder:   *)
(*   src/src/app/api/chat/route.ts  extractJSON, generateScreenData,       *)
(*                                  generateFallbackHTML, POST (generate)  *)
(*   src/src/lib/rate-limit.ts      RateLimiter.check, rateLimit           *)
(*                                                                         *)
(* Text is modelled as a sequence of lexical tokens.  Every token is the   *)
(* string of its own raw characters; the literal and chatter tokens        *)
(* (null, 5, Sure) are followed by one blank in the rendered text, all     *)
(* other tokens by nothing, so that the rendered text is what              *)
(* JSON.stringify would print, with chatter around it.  String values are  *)
(* sequences of atoms (indivisible runs of characters).                    *)
(***************************************************************************)
EXTENDS Integers, Sequences, FiniteSets, TLC

(***************************************************************************)
(* Tokens of the model's reply.                                            *)
(***************************************************************************)
LBRACE == "{"
RBRACE == "}"
COMMA  == ","
\* the fence of a code block (three backquotes, which a TLA+ string cannot hold)
FENCE  == "[fence]"
NULLT  == "null"
NUMT   == "5"
WORD   == "Sure"
TAG    == "<p>"
KN     == "\"name\":"
KD     == "\"description\":"
KH     == "\"htmlContent\":"
KC     == "\"cssContent\":"
SEMPTY == "\"\""
SLOGIN == "\"Login\""
SGEN   == "\"Generated Screen\""
SHTML  == "\"<div>Login</div>\""
SESC   == "\"<a class=\\\"x\\\">\""

KeyToks == {KN, KD, KH, KC}
StrToks == {SEMPTY, SLOGIN, SGEN, SHTML, SESC}
Tokens  == {LBRACE, RBRACE, COMMA, FENCE, NULLT, NUMT, WORD, TAG}
             \cup KeyToks \cup StrToks

Keys == {"name", "description", "htmlContent", "cssContent"}

\* the property name a key token writes
KeyOf(tok) ==
  CASE tok = KN -> "name"
    [] tok = KD -> "description"
    [] tok = KH -> "htmlContent"
    [] tok = KC -> "cssContent"

\* the characters between the outer quotes of a string token, as written
RawInner(tok) ==
  CASE tok = SEMPTY -> << >>
    [] tok = SLOGIN -> <<"Login">>
    [] tok = SGEN   -> <<"Generated Screen">>
    [] tok = SHTML  -> <<"<div>Login</div>">>
    [] tok = SESC   -> <<"<a class=", "\\", "\"", "x", "\\", "\"", ">">>

\* the string a JSON parser decodes from a string token (escapes resolved)
Decoded(tok) ==
  CASE tok = SEMPTY -> << >>
    [] tok = SLOGIN -> <<"Login">>
    [] tok = SGEN   -> <<"Generated Screen">>
    [] tok = SHTML  -> <<"<div>Login</div>">>
    [] tok = SESC   -> <<"<a class=", "\"", "x", "\"", ">">>

\* the characters of a token in the rendered text
RawText(tok) ==
  IF tok \in StrToks THEN <<"\"">> \o RawInner(tok) \o <<"\"">>
  ELSE IF tok \in KeyToks THEN <<"\"", KeyOf(tok), "\"", ":">>
  ELSE IF tok \in {NULLT, NUMT, WORD} THEN <<tok, " ">>
  ELSE <<tok>>

RECURSIVE RawSpan(_, _, _)
\* the rendered characters of tokens a..b of a text
RawSpan(toks, a, b) ==
  IF a > b THEN << >> ELSE RawText(toks[a]) \o RawSpan(toks, a + 1, b)

(***************************************************************************)
(* JavaScript values, as far as the pipeline looks at them.  t is the      *)
(* type tag, s the characters of a string.  A parsed top-level value also  *)
(* carries f, its four properties (undefined when it has none).            *)
(***************************************************************************)
Undef     == [t |-> "undef", s |-> << >>]
Null      == [t |-> "null",  s |-> << >>]
Num       == [t |-> "num",   s |-> << >>]
Obj       == [t |-> "obj",   s |-> << >>]
Str(x)    == [t |-> "str",   s |-> x]
NoFields  == [k \in Keys |-> Undef]
Top(v, f) == [t |-> v.t, s |-> v.s, f |-> f]
NoMatch   == Top(Null, NoFields)

\* JavaScript truthiness (5 and any object are truthy, "" is not)
Truthy(v) == v.t \in {"num", "obj"} \/ (v.t = "str" /\ v.s # << >>)

\* a || b
OrElse(a, b) == IF Truthy(a) THEN a ELSE b

(***************************************************************************)
(* JSON.parse on a token sequence: a value is null, a number, a string or  *)
(* an object whose members are written with the four key tokens; a later   *)
(* duplicate key overwrites an earlier one.  ok = FALSE is a SyntaxError.  *)
(***************************************************************************)
ParseFail == [ok |-> FALSE, nxt |-> 0, v |-> NoMatch]

RECURSIVE ParseValue(_, _), ParseMembers(_, _, _)
\* the value that starts at token i, and the index after it
ParseValue(toks, i) ==
  IF i > Len(toks) THEN ParseFail
  ELSE LET tok == toks[i] IN
    CASE tok = NULLT     -> [ok |-> TRUE, nxt |-> i + 1, v |-> Top(Null, NoFields)]
      [] tok = NUMT      -> [ok |-> TRUE, nxt |-> i + 1, v |-> Top(Num, NoFields)]
      [] tok \in StrToks -> [ok |-> TRUE, nxt |-> i + 1,
                             v |-> Top(Str(Decoded(tok)), NoFields)]
      [] tok = LBRACE    ->
           IF i + 1 <= Len(toks) /\ toks[i + 1] = RBRACE
           THEN [ok |-> TRUE, nxt |-> i + 2, v |-> Top(Obj, NoFields)]
           ELSE ParseMembers(toks, i + 1, NoFields)
      [] OTHER           -> ParseFail

\* the members of an object from token i on (a key is expected at i)
ParseMembers(toks, i, acc) ==
  IF i > Len(toks) \/ toks[i] \notin KeyToks THEN ParseFail
  ELSE LET r == ParseValue(toks, i + 1) IN
    IF ~r.ok THEN ParseFail
    ELSE LET acc2 == [acc EXCEPT ![KeyOf(toks[i])] = [t |-> r.v.t, s |-> r.v.s]]
             j    == r.nxt
         IN  IF j > Len(toks) THEN ParseFail
             ELSE IF toks[j] = RBRACE
                  THEN [ok |-> TRUE, nxt |-> j + 1, v |-> Top(Obj, acc2)]
             ELSE IF toks[j] = COMMA THEN ParseMembers(toks, j + 1, acc2)
             ELSE ParseFail

\* JSON.parse(text): the whole text must be one value
JSONparse(toks) ==
  LET r == ParseValue(toks, 1)
  IN  IF r.ok /\ r.nxt = Len(toks) + 1
      THEN [ok |-> TRUE, v |-> r.v]
      ELSE [ok |-> FALSE, v |-> NoMatch]

\* JSON.stringify of a record of four strings
StrTokOf(x) == CHOOSE tok \in StrToks : Decoded(tok) = x
JSONstringify(rec) ==
  <<LBRACE, KN, StrTokOf(rec.name), COMMA, KD, StrTokOf(rec.description), COMMA,
    KH, StrTokOf(rec.htmlContent), COMMA, KC, StrTokOf(rec.cssContent), RBRACE>>

(***************************************************************************)
(* extractJSON, strategy by strategy.  Each strategy yields ok (it         *)
(* returned, rather than threw or did not match) and the value returned.   *)
(***************************************************************************)
\* indices of the tokens of a text that satisfy a test
Positions(toks, S) == {i \in 1..Len(toks) : toks[i] \in S}
Min(S) == CHOOSE x \in S : \A y \in S : x <= y
Max(S) == CHOOSE x \in S : \A y \in S : x >= y

\* Pattern 1: the whole text
Strategy1(text) == JSONparse(text)

\* Pattern 2: what stands between the first fence and the next one
Strategy2(text) ==
  LET fs == Positions(text, {FENCE})
  IN  IF Cardinality(fs) < 2 THEN [ok |-> FALSE, v |-> NoMatch]
      ELSE LET a == Min(fs)
               b == Min(fs \ {a})
           IN  JSONparse(SubSeq(text, a + 1, b - 1))

\* Pattern 3: from the first { to the last }
Strategy3(text) ==
  LET ls == Positions(text, {LBRACE})
      rs == Positions(text, {RBRACE})
  IN  IF ls = {} \/ rs = {} \/ Max(rs) < Min(ls) THEN [ok |-> FALSE, v |-> NoMatch]
      ELSE JSONparse(SubSeq(text, Min(ls), Max(rs)))

QuoteToks == StrToks \cup KeyToks

\* what "([^"]*)" captures at a token that starts with a quote
FirstQuoted(tok) ==
  IF tok \in KeyToks THEN <<KeyOf(tok)>>
  ELSE IF tok = SESC THEN <<"<a class=", "\\">>
  ELSE RawInner(tok)

\* /"key"\s*:\s*"([^"]*)"/ : the first key token followed by a quote
FieldMatch(text, key) ==
  LET ps == {i \in 1..(Len(text) - 1) : text[i] = key /\ text[i + 1] \in QuoteToks}
  IN  IF ps = {} THEN [ok |-> FALSE, s |-> << >>]
      ELSE [ok |-> TRUE, s |-> FirstQuoted(text[Min(ps) + 1])]

\* a closing quote that is followed by  ,"  or by  }
HtmlEnd(text, j) ==
  /\ text[j] \in StrToks
  /\ j + 1 <= Len(text)
  /\ \/ text[j + 1] = RBRACE
     \/ text[j + 1] = COMMA /\ j + 2 <= Len(text) /\ text[j + 2] \in QuoteToks

\* the characters from behind the opening quote of token a to the closing
\* quote of string token b
QuotedSpan(text, a, b) ==
  IF a = b THEN RawInner(text[a])
  ELSE Tail(RawText(text[a])) \o RawSpan(text, a + 1, b - 1)
         \o <<"\"">> \o RawInner(text[b])

\* /"htmlContent"\s*:\s*"([\s\S]*?)"(?:,\s*"|\s*})/ : leftmost start, shortest capture
HtmlMatch(text) ==
  LET starts == {i \in 1..(Len(text) - 1) :
                   /\ text[i] = KH
                   /\ text[i + 1] \in QuoteToks
                   /\ \E j \in (i + 1)..Len(text) : HtmlEnd(text, j)}
  IN  IF starts = {} THEN [ok |-> FALSE, s |-> << >>]
      ELSE LET i == Min(starts)
               j == Min({k \in (i + 1)..Len(text) : HtmlEnd(text, k)})
           IN  [ok |-> TRUE, s |-> QuotedSpan(text, i + 1, j)]

\* Pattern 4 content with a name alone
Strategy4_NameOnly(text) ==
  LET nameMatch == FieldMatch(text, KN)
      htmlMatch == HtmlMatch(text)
      descMatch == FieldMatch(text, KD)
      cssMatch  == FieldMatch(text, KC)
  IN  IF nameMatch.ok
      THEN [ok |-> TRUE,
            v  |-> Top(Obj, [name        |-> Str(nameMatch.s),
                             description |-> IF descMatch.ok THEN Str(descMatch.s) ELSE Str(<< >>),
                             htmlContent |-> Str(htmlMatch.s),
                             cssContent  |-> IF cssMatch.ok THEN Str(cssMatch.s) ELSE Str(<< >>)])]
      ELSE [ok |-> FALSE, v |-> NoMatch]

\* Pattern 4: the fields one by one
Strategy4(text) ==
  LET nameMatch == FieldMatch(text, KN)
      htmlMatch == HtmlMatch(text)
      descMatch == FieldMatch(text, KD)
      cssMatch  == FieldMatch(text, KC)
  IN  IF nameMatch.ok /\ htmlMatch.ok
      THEN [ok |-> TRUE,
            v  |-> Top(Obj, [name        |-> Str(nameMatch.s),
                             description |-> IF descMatch.ok THEN Str(descMatch.s) ELSE Str(<< >>),
                             htmlContent |-> Str(htmlMatch.s),
                             cssContent  |-> IF cssMatch.ok THEN Str(cssMatch.s) ELSE Str(<< >>)])]
      ELSE [ok |-> FALSE, v |-> NoMatch]

\* the number of the strategy whose return statement ends extractJSON (0: the final return null)
ReturningStrategy(text) ==
  IF Strategy1(text).ok THEN 1
  ELSE IF Strategy2(text).ok THEN 2
  ELSE IF Strategy3(text).ok THEN 3
  ELSE IF Strategy4(text).ok THEN 4
  ELSE 0

extractJSON(text) ==
  IF Strategy1(text).ok THEN Strategy1(text).v
  ELSE IF Strategy2(text).ok THEN Strategy2(text).v
  ELSE IF Strategy3(text).ok THEN Strategy3(text).v
  ELSE IF Strategy4(text).ok THEN Strategy4(text).v
  ELSE NoMatch


(***************************************************************************)
(* generateFallbackHTML.  A prompt is a sequence of single characters; the *)
(* two halves of the fixed template are one atom each.                     *)
(***************************************************************************)
FallbackMaxLen == 100
Ellipsis == <<".", ".", ".">>
TplHead  == "<div class=\"min-h-screen bg-gray-50 p-6\">[...]<p class=\"text-gray-600 mb-4\">Your request: \""
TplTail  == "\"</p>[...]Action Button[...]</div>"

\* the cut without its marker
Truncate_NoEllipsis(userPrompt) ==
  IF Len(userPrompt) > FallbackMaxLen
  THEN SubSeq(userPrompt, 1, FallbackMaxLen)
  ELSE userPrompt

Truncate(userPrompt) ==
  IF Len(userPrompt) > FallbackMaxLen
  THEN SubSeq(userPrompt, 1, FallbackMaxLen) \o Ellipsis
  ELSE userPrompt

\* the template forgotten: the prompt alone
generateFallbackHTML_PromptOnly(userPrompt) == Truncate(userPrompt)

generateFallbackHTML(userPrompt) == <<TplHead>> \o Truncate(userPrompt) \o <<TplTail>>

(***************************************************************************)
(* text.match(/<[\s\S]*>/g): greedy, so the one match runs from the first  *)
(* < of the text to its last >.  The tokens that hold angle brackets start *)
(* with < and end with > (inside their quotes, if they are strings).       *)
(***************************************************************************)
AngleToks == {TAG, SHTML, SESC}

HtmlOnly(text) ==
  LET ps == Positions(text, AngleToks)
  IN  IF ps = {} THEN << >>
      ELSE LET a == Min(ps)
               b == Max(ps)
               inner(k) == IF text[k] = TAG THEN <<TAG>> ELSE RawInner(text[k])
           IN  IF a = b THEN <<inner(a)>>
               ELSE <<inner(a) \o (IF text[a] = TAG THEN << >> ELSE <<"\"">>)
                        \o RawSpan(text, a + 1, b - 1)
                        \o (IF text[b] = TAG THEN << >> ELSE <<"\"">>) \o inner(b)>>

\* matches.slice(0, n)
Slice(matches, n) == SubSeq(matches, 1, IF Len(matches) < n THEN Len(matches) ELSE n)

RECURSIVE JoinLines(_)
\* matches.join("\n")
JoinLines(matches) ==
  IF matches = << >> THEN << >>
  ELSE IF Len(matches) = 1 THEN matches[1]
  ELSE matches[1] \o <<"\n">> \o JoinLines(Tail(matches))

ScrapeLimit == 5
GeneratedScreen == <<"Generated Screen">>

(***************************************************************************)
(* generateScreenData(prompt, systemPrompt).  reply is the outcome of      *)
(* generateText: it threw (an error or a timeout), or it returned text.    *)
(* via and synth are history fields, not part of ScreenData: via names the *)
(* return statement taken ("throw": none, an exception left the function), *)
(* synth tells that htmlContent is the value of generateFallbackHTML.      *)
(***************************************************************************)
\* the catch block throwing again instead of returning the fallback
CatchResult_Rethrow(prompt, how) ==
  [name |-> Undef, description |-> Undef, htmlContent |-> Undef, cssContent |-> Undef,
   via |-> "throw", synth |-> FALSE]

CatchResult(prompt, how) ==
  [name        |-> Str(GeneratedScreen),
   description |-> Str(<<"Generated from prompt">>),
   htmlContent |-> Str(generateFallbackHTML(prompt)),
   cssContent  |-> Str(<< >>),
   via |-> how, synth |-> TRUE]

\* the last resort left out
AfterNoMatch_NoScrape(prompt, text) == CatchResult(prompt, "nomatch")

\* what follows if (parsed) {...}: the last resort, then the throw into the catch
AfterNoMatch(prompt, text) ==
  LET htmlOnly == HtmlOnly(text)
  IN  IF htmlOnly # << >>
      THEN [name        |-> Str(GeneratedScreen),
            description |-> Str(<<"Generated from AI response">>),
            htmlContent |-> Str(JoinLines(Slice(htmlOnly, ScrapeLimit))),
            cssContent  |-> Str(<< >>),
            via |-> "scrape", synth |-> FALSE]
      ELSE CatchResult(prompt, "nomatch")

generateScreenData(prompt, reply) ==
  IF reply.threw THEN CatchResult(prompt, "error")
  ELSE LET parsed == extractJSON(reply.text)
       IN  IF Truthy(parsed)
           THEN [name        |-> OrElse(parsed.f.name, Str(GeneratedScreen)),
                 description |-> OrElse(parsed.f.description, Str(<< >>)),
                 htmlContent |-> OrElse(parsed.f.htmlContent, Str(generateFallbackHTML(prompt))),
                 cssContent  |-> OrElse(parsed.f.cssContent, Str(<< >>)),
                 via |-> "extract", synth |-> ~Truthy(parsed.f.htmlContent)]
           ELSE AfterNoMatch(prompt, reply.text)


(***************************************************************************)
(* RateLimiter.check.  store maps an identifier to the timestamps kept for *)
(* it (the empty sequence where the Map has no entry).                     *)
(***************************************************************************)
StrictRequests == 10
StrictWindowMs == 60000
Strict == [requests |-> StrictRequests, windowMs |-> StrictWindowMs]
ModerateRequests == 30
ModerateWindowMs == 60000
LenientRequests  == 100
LenientWindowMs  == 60000
Tiers == {"strict", "moderate", "lenient"}
RATE_LIMITS ==
  [strict   |-> Strict,
   moderate |-> [requests |-> ModerateRequests, windowMs |-> ModerateWindowMs],
   lenient  |-> [requests |-> LenientRequests, windowMs |-> LenientWindowMs]]

RECURSIVE Filter(_, _)
\* timestamps.filter((timestamp) => timestamp > windowStart)
Filter(timestamps, windowStart) ==
  IF timestamps = << >> THEN << >>
  ELSE IF Head(timestamps) > windowStart
       THEN <<Head(timestamps)>> \o Filter(Tail(timestamps), windowStart)
       ELSE Filter(Tail(timestamps), windowStart)

\* the limit compared with > : one request too many is let through
check_OffByOne(store, identifier, config, t) ==
  LET windowStart  == t - config.windowMs
      userRequests == Filter(store[identifier], windowStart)
  IN  IF Len(userRequests) > config.requests
      THEN [allowed |-> FALSE, store |-> store]
      ELSE [allowed |-> TRUE,
            store   |-> [store EXCEPT ![identifier] = Append(userRequests, t)]]

\* RateLimiter.check; the store maps an identifier never seen to the empty
\* list, and cleanup is left out: it runs with more than 10000 identifiers
check(store, identifier, config, t) ==
  LET windowStart  == t - config.windowMs
      userRequests == Filter(store[identifier], windowStart)
  IN  IF Len(userRequests) >= config.requests
      THEN [allowed |-> FALSE, store |-> store]
      ELSE [allowed |-> TRUE,
            store   |-> [store EXCEPT ![identifier] = Append(userRequests, t)]]

(***************************************************************************)
(* The world of the request handler.                                       *)
(***************************************************************************)
MaxServed == 1      \* requests that arrive in one behaviour
MaxTicks  == 1      \* times the clock moves on in one behaviour

Req        == {1}
Users      == {"u1"}            \* the callers; P2 belongs to u2, who does not call
NoUser     == "none"
Idents     == {"user:u1", "ip:anonymous"}
ProjectIds == {"P1", "P2"}
NoProject  == "P0"
\* the screenId of a request body: not given, or a string; a Screen row's id
\* is its number in order of creation, the empty string is number 0 and
\* LostId is an id that names no row
ScreenIdArg(given, id) == [given |-> given, id |-> id]
Absent     == ScreenIdArg(FALSE, 0)
EmptyId    == ScreenIdArg(TRUE, 0)
LostId     == ScreenIdArg(TRUE, 9)
\* if (screenId)
Given(screenId) == screenId.given /\ screenId.id > 0
Prompts    == {<<"a">>, <<"<", "b", ">">>}

\* the request bodies that parse as JSON, and the one that does not
Bodies ==
  [malformed : {FALSE},
   projectId : ProjectIds \cup {NoProject, ""},
   prompt    : Prompts \cup {<< >>},
   screenId  : {Absent, EmptyId, ScreenIdArg(TRUE, 1), ScreenIdArg(TRUE, 2), LostId}]
  \cup
  [malformed : {TRUE}, projectId : {""}, prompt : {<< >>}, screenId : {Absent}]

\* generateBodySchema.safeParse(body).success
Validates(body) == body.projectId # "" /\ body.prompt # << >>

\* an object text from its members, each a pair of key token and value token
RECURSIVE Members(_)
Members(ms) ==
  IF ms = << >> THEN << >>
  ELSE IF Len(ms) = 1 THEN ms[1]
  ELSE ms[1] \o <<COMMA>> \o Members(Tail(ms))
ObjText(ms) == <<LBRACE>> \o Members(ms) \o <<RBRACE>>

\* the replies of the model the handler is run against
HandlerTexts ==
  {<<WORD>>, <<WORD, TAG>>}
  \cup {ObjText(<<<<KN, n>>, <<KH, h>>>>) :
          n \in {SLOGIN, SGEN}, h \in {SHTML, SEMPTY, NUMT}}
  \cup {ObjText(<<<<KN, SEMPTY>>, <<KH, SHTML>>>>)}
HandlerReplies ==
  {[threw |-> TRUE, text |-> << >>]}
  \cup {[threw |-> FALSE, text |-> t] : t \in HandlerTexts}

\* `Project: ${project.name}\nRequest: ${prompt}`
ComposePrompt(projectName, prompt) ==
  <<"P", "r", "o", "j", "e", "c", "t", ":", " ">> \o projectName
    \o <<"\n", "R", "e", "q", "u", "e", "s", "t", ":", " ">> \o prompt

NoData == [name |-> Undef, description |-> Undef, htmlContent |-> Undef,
           cssContent |-> Undef, via |-> "none", synth |-> FALSE]
NoRow  == [id |-> 0, projectId |-> "", name |-> << >>, htmlContent |-> << >>,
           cssContent |-> << >>, x |-> 0, y |-> 0, width |-> 0, height |-> 0,
           updatedAt |-> 0]
NoResp == [status |-> 0, error |-> "", fallback |-> FALSE, screen |-> NoRow]

\* a request that has not read anything yet
FreshRequest ==
  [userId |-> NoUser, projectId |-> "", prompt |-> << >>, screenId |-> Absent,
   malformed |-> FALSE, projectName |-> << >>, replyThrew |-> FALSE,
   data |-> NoData, stamp |-> 0, screen |-> NoRow, resp |-> NoResp,
   modelCalls |-> 0, screenWrites |-> 0, historyWrites |-> 0]

ScreenWidth  == 375
ScreenHeight == 812

VARIABLES
  now,            \* Date.now()
  ticks,          \* how often the clock has moved on
  limiter,        \* RateLimiter.requests
  projects,       \* the Project table: id -> row
  screens,        \* the Screen table: id -> row
  promptHistory,  \* the PromptHistory table, in order of creation
  served,         \* requests that have arrived
  pc,             \* where each request is: idle, auth, body, find, model, screen, history, done
  req,            \* what each request has read and computed
  pPhase,         \* pure functions on their own: input, extracted, generated
  pReply,         \*   the outcome of generateText
  pPrompt,        \*   the prompt
  pParsed,        \*   extractJSON(text)
  pData,          \*   generateScreenData(prompt, reply)
  fPhase,         \* generateFallbackHTML on its own: idle, input, done
  fPrompt,        \*   userPrompt
  fHtml,          \*   the string returned
  calls,          \* the rate limiter on its own: calls of check so far
  admitted,       \*   history: the timestamps of the calls that returned true,
                  \*   by identifier and tier
  lastCall,       \*   the last call of check: identifier, tier, result
  sv              \* the save request: where it is and what it has read

handlerVars == <<now, ticks, limiter, projects, screens, promptHistory, served, pc, req>>
pureVars    == <<pPhase, pReply, pPrompt, pParsed, pData>>
synthVars   == <<fPhase, fPrompt, fHtml>>
limVars     == <<calls, admitted, lastCall>>
extVars     == <<fPhase, fPrompt, fHtml, calls, admitted, lastCall, sv>>
vars        == <<now, ticks, limiter, projects, screens, promptHistory, served, pc, req,
                 pPhase, pReply, pPrompt, pParsed, pData,
                 fPhase, fPrompt, fHtml, calls, admitted, lastCall, sv>>

\* the update forgetting the style sheet
UpdatedRow_KeepsCss(old, data, stamp) ==
  [old EXCEPT !.name = data.name.s, !.htmlContent = data.htmlContent.s,
              !.updatedAt = stamp]

\* the update placing the screen like a new one
UpdatedRow_ResetsSize(old, data, stamp) ==
  [old EXCEPT !.name = data.name.s, !.htmlContent = data.htmlContent.s,
              !.cssContent = data.cssContent.s, !.updatedAt = stamp,
              !.x = 0, !.y = 0, !.width = ScreenWidth, !.height = ScreenHeight]

\* the update giving way to a row stamped later
UpdatedRow_KeepsNewer(old, data, stamp) ==
  IF old.updatedAt > stamp THEN old
  ELSE [old EXCEPT !.name = data.name.s, !.htmlContent = data.htmlContent.s,
                   !.cssContent = data.cssContent.s, !.updatedAt = stamp]

\* prisma.screen.update: the row with the three content columns and updatedAt set
UpdatedRow(old, data, stamp) ==
  [old EXCEPT !.name = data.name.s, !.htmlContent = data.htmlContent.s,
              !.cssContent = data.cssContent.s, !.updatedAt = stamp]

\* prisma.screen.create: a new row (x, y and updatedAt by the column defaults)
CreatedRow(id, projectId, data, t) ==
  [id |-> id, projectId |-> projectId, name |-> data.name.s,
   htmlContent |-> data.htmlContent.s, cssContent |-> data.cssContent.s,
   x |-> 0, y |-> 0, width |-> ScreenWidth, height |-> ScreenHeight, updatedAt |-> t]

\* the prompt logged twice
LogPrompt_Twice(history, projectId, prompt) ==
  history \o <<[projectId |-> projectId, content |-> prompt, role |-> "user"],
               [projectId |-> projectId, content |-> prompt, role |-> "user"]>>

\* prisma.promptHistory.create
LogPrompt(history, projectId, prompt) ==
  Append(history, [projectId |-> projectId, content |-> prompt, role |-> "user"])

\* fallback: screenData.name === "Generated Screen" ? true : undefined
\* (FALSE: the field is absent from the response)
FallbackFlag(data) == data.name = Str(GeneratedScreen)

\* the tables before the first request: one screen in each project
TablesInit ==
  /\ projects = [p \in ProjectIds |->
                  IF p = "P1"
                  THEN [userId |-> "u1", name |-> <<"A">>, thumbnail |-> << >>,
                        updatedAt |-> 0]
                  ELSE [userId |-> "u2", name |-> <<"B">>, thumbnail |-> << >>,
                        updatedAt |-> 0]]
  /\ screens = [i \in {1, 2} |->
                  [id |-> i, projectId |-> IF i = 1 THEN "P1" ELSE "P2",
                   name |-> <<"Home">>, htmlContent |-> <<"<main>">>,
                   cssContent |-> <<"main{}">>, x |-> 40, y |-> 20,
                   width |-> 320, height |-> 640, updatedAt |-> 0]]
  /\ promptHistory = << >>

\* no request has arrived
NoRequests(slots) ==
  /\ served = 0
  /\ pc = [r \in slots |-> "idle"]
  /\ req = [r \in slots |-> FreshRequest]

\* before the first request; the anonymous address has had its ten
\* requests admitted at time 0
HandlerInit ==
  /\ now = 0
  /\ ticks = 0
  /\ limiter = [i \in Idents |->
                  IF i = "ip:anonymous" THEN [k \in 1..StrictRequests |-> 0]
                  ELSE << >>]
  /\ TablesInit
  /\ NoRequests(Req)

PureIdle ==
  /\ pPhase = "idle"
  /\ pReply = [threw |-> TRUE, text |-> << >>]
  /\ pPrompt = << >>
  /\ pParsed = NoMatch
  /\ pData = NoData

SynthIdle ==
  /\ fPhase = "idle"
  /\ fPrompt = << >>
  /\ fHtml = << >>

\* no call of check observed yet
NoCall == [identifier |-> "", tier |-> "", allowed |-> FALSE]
LimIdle ==
  /\ calls = 0
  /\ admitted = [i \in Idents |-> [tier \in Tiers |-> << >>]]
  /\ lastCall = NoCall

\* the save request before it has arrived
NoSave == [pc |-> "idle", userId |-> NoUser, projectId |-> "", name |-> << >>,
           thumbnail |-> << >>, screens |-> << >>, next |-> 0, updated |-> {},
           status |-> 0, error |-> ""]
SaveIdle == sv = NoSave

ExtIdle == SynthIdle /\ LimIdle /\ SaveIdle

Init == HandlerInit /\ PureIdle /\ ExtIdle

Done(r, status, error) ==
  /\ pc' = [pc EXCEPT ![r] = "done"]
  /\ req' = [req EXCEPT ![r].resp = [NoResp EXCEPT !.status = status, !.error = error]]

\* a request arrives: rateLimit(RATE_LIMITS.strict)(req), then auth() is called
Arrive(r) ==
  /\ pc[r] \in {"idle", "done"}
  /\ served' = served + 1
  /\ \E identifier \in Idents :
       LET c == check(limiter, identifier, Strict, now)
       IN  /\ limiter' = c.store
           /\ IF c.allowed
              THEN /\ pc' = [pc EXCEPT ![r] = "auth"]
                   /\ req' = [req EXCEPT ![r] = FreshRequest]
              ELSE /\ pc' = [pc EXCEPT ![r] = "done"]
                   /\ req' = [req EXCEPT ![r] =
                        [FreshRequest EXCEPT !.resp.status = 429,
                                             !.resp.error = "Too many requests"]]
  /\ UNCHANGED <<now, ticks, projects, screens, promptHistory, pureVars, extVars>>

Begin(r) == served < MaxServed /\ Arrive(r)

\* auth() resolves
Auth(r) ==
  /\ pc[r] = "auth"
  /\ \E userId \in Users \cup {NoUser} :
       IF userId = NoUser
       THEN Done(r, 401, "Unauthorized")
       ELSE /\ pc' = [pc EXCEPT ![r] = "body"]
            /\ req' = [req EXCEPT ![r].userId = userId]
  /\ UNCHANGED <<now, ticks, limiter, projects, screens, promptHistory, served, pureVars, extVars>>

\* req.json() resolves or rejects; the schema is applied; findUnique is called
BodyOf(r, bodies) ==
  /\ pc[r] = "body"
  /\ \E body \in bodies :
       LET status == IF body.malformed THEN 500
                     ELSE IF ~Validates(body) THEN 400
                     ELSE 0
       IN  /\ pc' = [pc EXCEPT ![r] = IF status = 0 THEN "find" ELSE "done"]
           /\ req' = [req EXCEPT
                 ![r].malformed = body.malformed,
                 ![r].projectId = body.projectId,
                 ![r].prompt    = body.prompt,
                 ![r].screenId  = body.screenId,
                 ![r].resp      = IF status = 0 THEN NoResp
                                  ELSE [NoResp EXCEPT
                                          !.status = status,
                                          !.error  = IF status = 400
                                                     THEN "Invalid request body"
                                                     ELSE "Failed to generate screen"]]
  /\ UNCHANGED <<now, ticks, limiter, projects, screens, promptHistory, served, pureVars, extVars>>

Body(r) == BodyOf(r, Bodies)

\* the ownership check left out
Owns_Anyone(project, userId) == TRUE

\* project.userId !== userId, negated
Owns(project, userId) == project.userId = userId

\* prisma.project.findUnique resolves; the ownership check; generateText is called
FindProject(r) ==
  /\ pc[r] = "find"
  /\ IF req[r].projectId \notin DOMAIN projects
     THEN Done(r, 404, "Project not found")
     ELSE IF ~Owns(projects[req[r].projectId], req[r].userId)
     THEN Done(r, 403, "Unauthorized")
     ELSE /\ pc' = [pc EXCEPT ![r] = "model"]
          /\ req' = [req EXCEPT ![r].projectName = projects[req[r].projectId].name]
  /\ UNCHANGED <<now, ticks, limiter, projects, screens, promptHistory, served, pureVars, extVars>>

\* generateText settles; generateScreenData returns (an exception that left
\* it would reach the handler's catch); the Screen write is called
ModelCallOf(r, replies) ==
  /\ pc[r] = "model"
  /\ \E reply \in replies :
       LET data == generateScreenData(
                     ComposePrompt(req[r].projectName, req[r].prompt), reply)
       IN  /\ req' = [req EXCEPT
                 ![r].replyThrew = reply.threw,
                 ![r].data       = data,
                 ![r].stamp      = now,
                 ![r].modelCalls = @ + 1,
                 ![r].resp       = IF data.via = "throw"
                                   THEN [NoResp EXCEPT
                                           !.status = 500,
                                           !.error  = "Failed to generate screen"]
                                   ELSE NoResp]
           /\ pc' = [pc EXCEPT ![r] = IF data.via = "throw" THEN "done" ELSE "screen"]
  /\ UNCHANGED <<now, ticks, limiter, projects, screens, promptHistory, served, pureVars, extVars>>

ModelCall(r) == ModelCallOf(r, HandlerReplies)

\* prisma accepts only strings for the String columns
ColumnsValid(data) ==
  data.name.t = "str" /\ data.htmlContent.t = "str" /\ data.cssContent.t = "str"

\* prisma.screen.update(...) or prisma.screen.create(...) settles
WriteScreen(r) ==
  /\ pc[r] = "screen"
  /\ \E storageFails \in BOOLEAN :
       LET q  == req[r]
           id == IF Given(q.screenId) THEN q.screenId.id
                 ELSE Cardinality(DOMAIN screens) + 1
           row == IF Given(q.screenId)
                  THEN UpdatedRow(screens[id], q.data, q.stamp)
                  ELSE CreatedRow(id, q.projectId, q.data, now)
       IN  IF \/ storageFails
              \/ ~ColumnsValid(q.data)
              \/ (Given(q.screenId) /\ id \notin DOMAIN screens)
           THEN /\ Done(r, 500, "Failed to generate screen")
                /\ UNCHANGED screens
           ELSE /\ screens' = [i \in DOMAIN screens \cup {id} |->
                                 IF i = id THEN row ELSE screens[i]]
                /\ pc' = [pc EXCEPT ![r] = "history"]
                /\ req' = [req EXCEPT ![r].screen = row,
                                      ![r].screenWrites = @ + 1]
  /\ UNCHANGED <<now, ticks, limiter, projects, promptHistory, served, pureVars, extVars>>

\* the catch block undoing the Screen write: the row written is deleted
HistoryRejected_RollsBack(r) ==
  /\ Done(r, 500, "Failed to generate screen")
  /\ UNCHANGED promptHistory
  /\ screens' = [i \in DOMAIN screens \ {req[r].screen.id} |-> screens[i]]

\* prisma.promptHistory.create(...) rejects: the catch block answers 500
HistoryRejected(r) ==
  /\ Done(r, 500, "Failed to generate screen")
  /\ UNCHANGED <<promptHistory, screens>>

\* prisma.promptHistory.create(...) settles; the response is sent
WriteHistory(r) ==
  /\ pc[r] = "history"
  /\ \E storageFails \in BOOLEAN :
       IF storageFails
       THEN HistoryRejected(r)
       ELSE /\ promptHistory' = LogPrompt(promptHistory, req[r].projectId, req[r].prompt)
            /\ UNCHANGED screens
            /\ pc' = [pc EXCEPT ![r] = "done"]
            /\ req' = [req EXCEPT
                 ![r].historyWrites = @ + 1,
                 ![r].resp = [status   |-> 200,
                              error    |-> "",
                              fallback |-> FallbackFlag(req[r].data),
                              screen   |-> req[r].screen]]
  /\ UNCHANGED <<now, ticks, limiter, projects, served, pureVars, extVars>>

\* a rate-limit window goes by
Tick ==
  /\ ticks < MaxTicks
  /\ ticks' = ticks + 1
  /\ now' = now + StrictWindowMs
  /\ UNCHANGED <<limiter, projects, screens, promptHistory, served, pc, req, pureVars, extVars>>

Next ==
  \/ \E r \in Req : Begin(r)
  \/ \E r \in Req : Auth(r)
  \/ \E r \in Req : Body(r)
  \/ \E r \in Req : FindProject(r)
  \/ \E r \in Req : ModelCall(r)
  \/ \E r \in Req : WriteScreen(r)
  \/ \E r \in Req : WriteHistory(r)
  \/ Tick

Spec == Init /\ [][Next]_vars


(***************************************************************************)
(* extractJSON and generateScreenData on their own, over the replies       *)
(* below: every text of up to MaxTextLen tokens, and objects of up to four *)
(* members as a model prints them: bare, fenced, inside chatter, with a    *)
(* token lost or cut short.                                                *)
(***************************************************************************)
MaxTextLen == 3

ShortTexts == UNION {[1..n -> Tokens] : n \in 0..MaxTextLen}

StrVals == {Decoded(tok) : tok \in StrToks}
Records == [name : StrVals, description : {<< >>, <<"Login">>},
            htmlContent : StrVals, cssContent : {<< >>, <<"Login">>}]

\* a member, or nothing where the value token is ""
Member(key, val) == IF val = "" THEN << >> ELSE <<<<key, val>>>>
ObjectTexts ==
  {ObjText(Member(KN, n) \o Member(KD, d) \o Member(KH, h) \o Member(KC, c)) :
     n \in {"", SEMPTY, SLOGIN, SGEN, NUMT},
     d \in {"", SLOGIN},
     h \in {"", SEMPTY, SHTML, SESC, NUMT, NULLT},
     c \in {"", SEMPTY}}

DropAt(text, k) == SubSeq(text, 1, k - 1) \o SubSeq(text, k + 1, Len(text))

Wrapped(j) ==
  {j,
   <<FENCE>> \o j \o <<FENCE>>,
   <<WORD, FENCE>> \o j \o <<FENCE, WORD>>,
   <<WORD>> \o j,
   <<TAG>> \o j \o <<RBRACE>>,
   <<FENCE, NULLT, FENCE>> \o j,
   <<LBRACE, RBRACE, FENCE>> \o j \o <<FENCE>>}
  \cup {DropAt(j, k) : k \in 1..Len(j)}
  \cup {SubSeq(j, 1, k) : k \in 1..Len(j)}

PureTexts ==
  ShortTexts
  \cup UNION {Wrapped(j) : j \in ObjectTexts}
  \cup {JSONstringify(rec) : rec \in Records}

PureReplies ==
  {[threw |-> TRUE, text |-> << >>]} \cup {[threw |-> FALSE, text |-> t] : t \in PureTexts}
PurePrompts == {<< >>, <<"a">>}

PureInit ==
  /\ HandlerInit
  /\ ExtIdle
  /\ pPhase = "input"
  /\ pReply \in PureReplies
  /\ pPrompt = << >>
  /\ pParsed = NoMatch
  /\ pData = NoData

\* extractJSON is applied to the text the model returned
PureExtract ==
  /\ pPhase = "input"
  /\ ~pReply.threw
  /\ pPhase' = "extracted"
  /\ pParsed' = extractJSON(pReply.text)
  /\ UNCHANGED <<pReply, pPrompt, pData, handlerVars, extVars>>

\* generateScreenData runs to its return
PureGenerate ==
  /\ pPhase = IF pReply.threw THEN "input" ELSE "extracted"
  /\ pPhase' = "generated"
  /\ \E prompt \in PurePrompts :
       /\ pPrompt' = prompt
       /\ pData' = generateScreenData(prompt, pReply)
  /\ UNCHANGED <<pReply, pParsed, handlerVars, extVars>>

PureNext == PureExtract \/ PureGenerate

PureSpec == PureInit /\ [][PureNext]_vars


(***************************************************************************)
(* generateFallbackHTML on its own, over prompts of 0 to FallbackMaxLen    *)
(* and a few more characters: a run of letters, then up to MaxTailLen      *)
(* characters that may be markup.                                          *)
(***************************************************************************)
MaxTailLen == 2

PromptChars == {"a", "<", ">", "&", "\""}
Rep(c, n) == [i \in 1..n |-> c]
SynthPrompts ==
  {Rep("a", n) \o tail :
     n \in {0, FallbackMaxLen - 2, FallbackMaxLen - 1, FallbackMaxLen},
     tail \in UNION {[1..k -> PromptChars] : k \in 0..MaxTailLen}}

SynthInit ==
  /\ HandlerInit
  /\ PureIdle
  /\ LimIdle
  /\ SaveIdle
  /\ fPhase = "input"
  /\ fPrompt \in SynthPrompts
  /\ fHtml = << >>

\* generateFallbackHTML(userPrompt) runs to its return
Synthesize ==
  /\ fPhase = "input"
  /\ fPhase' = "done"
  /\ fHtml' = generateFallbackHTML(fPrompt)
  /\ UNCHANGED <<fPrompt, handlerVars, pureVars, limVars, sv>>

SynthNext == Synthesize

SynthSpec == SynthInit /\ [][SynthNext]_vars


(***************************************************************************)
(* The rate limiter on its own: rateLimit(config)(req) is called by the    *)
(* endpoints under their tiers, for either identifier, while time goes by. *)
(* The user starts two short of the strict limit, all requests strict; the *)
(* anonymous address one short of the moderate limit, all moderate.        *)
(***************************************************************************)
MaxCalls    == 3    \* calls of check in one behaviour
MaxLimTicks == 2    \* times the clock moves on in one behaviour

\* by how much the clock moves on: a millisecond, or a window less a millisecond
Deltas == {1, StrictWindowMs - 1}

LimInit ==
  /\ now = 0
  /\ ticks = 0
  /\ limiter = [i \in Idents |->
                  IF i = "user:u1" THEN [k \in 1..(StrictRequests - 2) |-> 0]
                  ELSE [k \in 1..(ModerateRequests - 1) |-> 0]]
  /\ calls = 0
  /\ admitted = [i \in Idents |-> [tier \in Tiers |->
                  IF i = "user:u1" /\ tier = "strict"
                  THEN [k \in 1..(StrictRequests - 2) |-> 0]
                  ELSE IF i = "ip:anonymous" /\ tier = "moderate"
                  THEN [k \in 1..(ModerateRequests - 1) |-> 0]
                  ELSE << >>]]
  /\ lastCall = NoCall
  /\ TablesInit
  /\ NoRequests(Req)
  /\ PureIdle
  /\ SynthIdle
  /\ SaveIdle

\* a limiter with a list for each identifier and tier: the call sees only
\* the timestamps admitted under its own tier
CheckRateLimit_PerTier(identifier, tier) ==
  /\ calls < MaxCalls
  /\ calls' = calls + 1
  /\ LET own == [limiter EXCEPT ![identifier] = admitted[identifier][tier]]
         c   == check(own, identifier, RATE_LIMITS[tier], now)
     IN  /\ limiter' = IF c.allowed
                       THEN [limiter EXCEPT ![identifier] = Append(@, now)]
                       ELSE limiter
         /\ lastCall' = [identifier |-> identifier, tier |-> tier, allowed |-> c.allowed]
         /\ admitted' = IF c.allowed
                        THEN [admitted EXCEPT ![identifier][tier] = Append(@, now)]
                        ELSE admitted
  /\ UNCHANGED <<now, ticks, projects, screens, promptHistory, served, pc, req,
                 pureVars, synthVars, sv>>

\* checkRateLimit(req): getIdentifier, then rateLimiter.check
CheckRateLimit(identifier, tier) ==
  /\ calls < MaxCalls
  /\ calls' = calls + 1
  /\ LET c == check(limiter, identifier, RATE_LIMITS[tier], now)
     IN  /\ limiter' = c.store
         /\ lastCall' = [identifier |-> identifier, tier |-> tier, allowed |-> c.allowed]
         /\ admitted' = IF c.allowed
                        THEN [admitted EXCEPT ![identifier][tier] = Append(@, now)]
                        ELSE admitted
  /\ UNCHANGED <<now, ticks, projects, screens, promptHistory, served, pc, req,
                 pureVars, synthVars, sv>>

\* time goes by
Pass ==
  /\ ticks < MaxLimTicks
  /\ ticks' = ticks + 1
  /\ \E d \in Deltas : now' = now + d
  /\ UNCHANGED <<limiter, projects, screens, promptHistory, served, pc, req,
                 pureVars, extVars>>

LimNext ==
  \/ \E identifier \in Idents, tier \in Tiers : CheckRateLimit(identifier, tier)
  \/ Pass

LimSpec == LimInit /\ [][LimNext]_vars


\* ---------------------------------------------------------------------------
\* Two generate requests for the same screen, in flight together

Racers == {1, 2}

\* both name screen 1 of project P1
RaceBodies ==
  {b \in Bodies : /\ ~b.malformed
                  /\ b.projectId = "P1"
                  /\ b.prompt = <<"a">>
                  /\ b.screenId = ScreenIdArg(TRUE, 1)}

\* the model call fails, or answers one of two screens
RaceReplies ==
  {[threw |-> TRUE, text |-> << >>],
   [threw |-> FALSE, text |-> ObjText(<<<<KN, SLOGIN>>, <<KH, SHTML>>>>)],
   [threw |-> FALSE, text |-> ObjText(<<<<KN, SGEN>>, <<KH, SHTML>>>>)]}

RaceInit ==
  /\ now = 0
  /\ ticks = 0
  /\ limiter = [i \in Idents |-> << >>]
  /\ TablesInit
  /\ NoRequests(Racers)
  /\ PureIdle
  /\ ExtIdle

\* each of the two requests arrives once
RaceBegin(r) == pc[r] = "idle" /\ Arrive(r)

\* the continuation of request r that is ready to run
Continue(r) ==
  \/ Auth(r)
  \/ BodyOf(r, RaceBodies)
  \/ FindProject(r)
  \/ ModelCallOf(r, RaceReplies)
  \/ WriteScreen(r)
  \/ WriteHistory(r)

RaceNext ==
  \/ \E r \in Racers : RaceBegin(r)
  \/ \E r \in Racers : Continue(r)
  \/ Tick

\* every awaited promise settles, and the event loop then runs the handler on
RaceSpec ==
  RaceInit /\ [][RaceNext]_vars /\ \A r \in Racers : WF_vars(Continue(r))


\* ---------------------------------------------------------------------------
\* The project save request, beside the generate request

MaxSaveScreens == 2

\* an element of the body's screens array; id 0 is an element without id
SaveItems ==
  [id : {0, 1, 2, 9}, x : {77}, y : {88}, width : {300}, height : {600},
   name : {<<"Moved">>}]

RECURSIVE ItemLists(_)
ItemLists(n) ==
  IF n = 0 THEN {<< >>}
  ELSE ItemLists(n - 1)
       \cup {Append(l, i) : l \in {k \in ItemLists(n - 1) : Len(k) = n - 1},
                            i \in SaveItems}

\* the bodies of the save request; an empty name or thumbnail is one not given
SaveBodies ==
  [malformed : {FALSE},
   projectId : ProjectIds \cup {NoProject, ""},
   name      : {<< >>, <<"N">>},
   thumbnail : {<< >>, <<"t">>},
   screens   : ItemLists(MaxSaveScreens)]
  \cup
  [malformed : {TRUE}, projectId : {""}, name : {<< >>}, thumbnail : {<< >>},
   screens : {<< >>}]

\* the response of the save request
SaveDone(status, error) ==
  sv' = [sv EXCEPT !.pc = "done", !.status = status, !.error = error]

\* the index of the first element from k on that has an id, or 0
NextWithId(items, k) ==
  LET ks == {j \in k..Len(items) : items[j].id # 0}
  IN  IF ks = {} THEN 0 ELSE CHOOSE j \in ks : \A i \in ks : j <= i

\* the loop goes on to the next element with an id, or the response is sent
SaveAdvance(s, k) ==
  LET j == NextWithId(s.screens, k)
  IN  IF j = 0
      THEN [s EXCEPT !.pc = "done", !.status = 200, !.error = ""]
      ELSE [s EXCEPT !.pc = "screens", !.next = j]

\* the save request arrives, auth() resolves, req.json() is called
SaveAuth ==
  /\ sv.pc = "idle"
  /\ served < MaxServed
  /\ served' = served + 1
  /\ \E userId \in Users \cup {NoUser} :
       IF userId = NoUser
       THEN SaveDone(401, "Unauthorized")
       ELSE sv' = [sv EXCEPT !.pc = "body", !.userId = userId]
  /\ UNCHANGED <<now, ticks, limiter, projects, screens, promptHistory, pc, req,
                 pureVars, synthVars, limVars>>

\* req.json() settles; findUnique is called
SaveBody ==
  /\ sv.pc = "body"
  /\ \E body \in SaveBodies :
       IF body.malformed THEN SaveDone(500, "Failed to save project")
       ELSE IF body.projectId = "" THEN SaveDone(400, "Project ID required")
       ELSE sv' = [sv EXCEPT !.pc = "find", !.projectId = body.projectId,
                             !.name = body.name, !.thumbnail = body.thumbnail,
                             !.screens = body.screens]
  /\ UNCHANGED <<handlerVars, pureVars, synthVars, limVars>>

\* findUnique resolves; the owner is checked; project.update is called
SaveFind ==
  /\ sv.pc = "find"
  /\ IF sv.projectId \notin DOMAIN projects
     THEN SaveDone(404, "Project not found")
     ELSE IF projects[sv.projectId].userId # sv.userId
     THEN SaveDone(403, "Unauthorized")
     ELSE sv' = [sv EXCEPT !.pc = "project"]
  /\ UNCHANGED <<handlerVars, pureVars, synthVars, limVars>>

\* prisma.project.update settles; the loop over screens starts
SaveProject ==
  /\ sv.pc = "project"
  /\ \E storageFails \in BOOLEAN :
       IF storageFails
       THEN SaveDone(500, "Failed to save project") /\ UNCHANGED projects
       ELSE /\ projects' = [projects EXCEPT ![sv.projectId] =
                 [@ EXCEPT !.name = IF sv.name # << >> THEN sv.name ELSE @,
                           !.thumbnail = IF sv.thumbnail # << >> THEN sv.thumbnail ELSE @,
                           !.updatedAt = now]]
            /\ sv' = SaveAdvance(sv, 1)
  /\ UNCHANGED <<now, ticks, limiter, screens, promptHistory, served, pc, req,
                 pureVars, synthVars, limVars>>

\* the row of the save request's update: place, size and name
SavedRow(old, item) ==
  [old EXCEPT !.x = item.x, !.y = item.y, !.width = item.width,
              !.height = item.height, !.name = item.name]

\* prisma.screen.update({where: {id: screen.id}, ...}) settles
SaveScreen ==
  /\ sv.pc = "screens"
  /\ \E storageFails \in BOOLEAN :
       LET item == sv.screens[sv.next]
       IN  IF storageFails \/ item.id \notin DOMAIN screens
           THEN SaveDone(500, "Failed to save project") /\ UNCHANGED screens
           ELSE /\ screens' = [screens EXCEPT ![item.id] = SavedRow(@, item)]
                /\ sv' = SaveAdvance([sv EXCEPT !.updated = @ \cup {item.id}],
                                     sv.next + 1)
  /\ UNCHANGED <<now, ticks, limiter, projects, promptHistory, served, pc, req,
                 pureVars, synthVars, limVars>>

SaveNext ==
  \/ SaveAuth
  \/ SaveBody
  \/ SaveFind
  \/ SaveProject
  \/ SaveScreen

\* one request at a time, a generate request or a save request
OwnNext ==
  \/ Next
  \/ SaveNext

OwnSpec == Init /\ [][OwnNext]_vars


(***************************************************************************)
(*                               Claims                                    *)
(***************************************************************************)
\* a value that is there and is not the empty string
NonEmpty(v) == v.t \notin {"undef", "null"} /\ v # Str(<< >>)

C2_Step(r) ==
  LET q  == req[r]
      id == q.screenId.id
  IN  /\ pc'[r] = "history" /\ q.screenId.given /\ id \in DOMAIN screens =>
           /\ DOMAIN screens' = DOMAIN screens
           /\ screens'[id].name = q.data.name.s
           /\ screens'[id].htmlContent = q.data.htmlContent.s
           /\ screens'[id].cssContent = q.data.cssContent.s
           /\ screens'[id].updatedAt = q.stamp
           /\ \A i \in DOMAIN screens \ {id} : screens'[i] = screens[i]
      /\ pc'[r] = "history" /\ ~q.screenId.given =>
           /\ Cardinality(DOMAIN screens' \ DOMAIN screens) = 1
           /\ DOMAIN screens \subseteq DOMAIN screens'
           /\ \A i \in DOMAIN screens : screens'[i] = screens[i]
           /\ \A i \in DOMAIN screens' \ DOMAIN screens :
                /\ screens'[i].projectId = q.projectId
                /\ screens'[i].width = 375
                /\ screens'[i].height = 812
                /\ screens'[i].name = q.data.name.s
                /\ screens'[i].htmlContent = q.data.htmlContent.s
                /\ screens'[i].cssContent = q.data.cssContent.s
      /\ pc'[r] = "done" => screens' = screens
C2_Upsert == [][\A r \in Req : pc[r] = "screen" /\ pc'[r] # "screen" => C2_Step(r)]_vars

\* screen 1 has been regenerated in place, after the clock moved on
C2_Witness ==
  \E r \in Req :
    /\ pc[r] = "history"
    /\ req[r].screenId = ScreenIdArg(TRUE, 1)
    /\ DOMAIN screens = {1, 2}
    /\ screens[1].htmlContent = <<"<div>Login</div>">>
    /\ screens[1].cssContent = << >>
    /\ screens[1].updatedAt = StrictWindowMs
    /\ screens[1].width = 320

\* C3: a generateText that throws is never answered as an error: the
\* request goes on to the Screen write with the synthesized fallback
\* content, only a rejected storage write can end it with 500, and the
\* success response carries fallback: true and the fallback content.
C3_State(r) ==
  LET q == req[r]
  IN  q.modelCalls = 1 /\ q.replyThrew =>
        /\ q.data.via = "error"
        /\ q.data.htmlContent =
             Str(generateFallbackHTML(ComposePrompt(q.projectName, q.prompt)))
        /\ ColumnsValid(q.data)
        /\ pc[r] # "model"
        /\ pc[r] = "done" =>
             /\ q.resp.status \in {200, 500}
             /\ q.resp.status = 500 => q.historyWrites = 0
             /\ q.resp.status = 200 =>
                  /\ q.resp.fallback
                  /\ q.screenWrites = 1
                  /\ q.resp.screen.htmlContent = q.data.htmlContent.s
C3_ModelFailureAbsorbed ==
  /\ [](\A r \in Req : C3_State(r))
  /\ [][\A r \in Req : pc[r] = "model" /\ pc'[r] # "model" => pc'[r] = "screen"]_vars

\* the model call failed and the request was answered 200 with the
\* fallback content written to screen 1
C3_Witness ==
  \E r \in Req :
    /\ pc[r] = "done"
    /\ req[r].replyThrew
    /\ req[r].resp.status = 200
    /\ req[r].resp.fallback
    /\ req[r].screenId = ScreenIdArg(TRUE, 1)
    /\ screens[1].htmlContent = generateFallbackHTML(ComposePrompt(<<"A">>, <<"a">>))

\* C4: a request the rate limiter admits is answered 401 when auth() gives
\* no user, else 400 when the parsed body fails the schema, else 404 when
\* the project does not exist, else 403 with error "Unauthorized" when the
\* project is not the caller's; a request so rejected has called the
\* model not at all and has written no Screen and no PromptHistory row.
C4_State(r) ==
    LET q     == req[r]
        st    == q.resp.status
        user  == q.userId # NoUser
        valid == user /\ ~q.malformed /\ Validates(q)
        found == valid /\ q.projectId \in DOMAIN projects
    IN  pc[r] = "done" /\ st # 429 =>
          /\ ~user => st = 401
          /\ user /\ ~q.malformed /\ ~Validates(q) => st = 400
          /\ valid /\ ~found => st = 404
          /\ found /\ projects[q.projectId].userId # q.userId =>
               st = 403 /\ q.resp.error = "Unauthorized"
          /\ st \in {400, 401, 403, 404} =>
               q.modelCalls = 0 /\ q.screenWrites = 0 /\ q.historyWrites = 0
C5_FlagOnlyForFallback ==
  \A r \in Req :
    pc[r] = "done" /\ req[r].resp.status = 200 /\ req[r].resp.fallback =>
      req[r].data.synth \/ req[r].data.via = "scrape"

\* C6 (as claimed): whenever htmlContent is the value of
\* generateFallbackHTML, the success response carries fallback: true.
C6_SynthesizedIsFlagged ==
  \A r \in Req :
    pc[r] = "done" /\ req[r].resp.status = 200 /\ req[r].data.synth =>
      req[r].resp.fallback

\* C7 (as claimed): every request that passed authentication, validation
\* and the ownership check has, when it ends, written Screen exactly once
\* and PromptHistory exactly once.
C7_ExactlyOneEach ==
  \A r \in Req :
    pc[r] = "done" /\ req[r].modelCalls = 1 =>
      req[r].screenWrites = 1 /\ req[r].historyWrites = 1

\* C7 (amended): such a request writes Screen at most once and
\* PromptHistory at most once, PromptHistory only after its Screen write
\* was accepted; it has written both exactly once exactly when it answers
\* 200, with model content and with fallback content alike.  Each write
\* of a table is one write of one request, and a PromptHistory write adds
\* one row: the request's projectId, its raw prompt, role "user".
C7_State(r) ==
  LET q == req[r]
  IN  /\ q.screenWrites <= 1
      /\ q.historyWrites <= q.screenWrites
      /\ pc[r] = "done" /\ q.modelCalls = 1 =>
           (q.resp.status = 200 <=> q.screenWrites = 1 /\ q.historyWrites = 1)
C7_Step ==
  /\ screens' # screens =>
       \E r \in Req : pc[r] = "screen" /\ req'[r].screenWrites = req[r].screenWrites + 1
  /\ promptHistory' # promptHistory =>
       \E r \in Req :
         /\ pc[r] = "history"
         /\ req'[r].historyWrites = req[r].historyWrites + 1
         /\ promptHistory' = Append(promptHistory,
              [projectId |-> req[r].projectId, content |-> req[r].prompt, role |-> "user"])
C7_AtMostOneEach ==
  /\ [](\A r \in Req : C7_State(r))
  /\ [][C7_Step]_vars

\* a request answered 200 with fallback content: one Screen row added, one prompt logged
C7_Witness ==
  \E r \in Req :
    /\ pc[r] = "done"
    /\ req[r].resp.status = 200
    /\ req[r].data.synth
    /\ req[r].screenWrites = 1
    /\ req[r].historyWrites = 1
    /\ Len(promptHistory) = 1
    /\ DOMAIN screens = {1, 2, 3}

\* C8 (as claimed): a recovered record whose htmlContent is empty or absent
\* is treated exactly as NoMatch (tag scraping, then the full fallback),
\* and the recovered name is never kept over replaced content.
C8_MissingContentIsNoMatch ==
  pPhase = "generated" /\ ~pReply.threw /\ pParsed.t = "obj"
    /\ ~NonEmpty(pParsed.f.htmlContent) =>
      /\ \A k \in Keys : pData[k] = AfterNoMatch(pPrompt, pReply.text)[k]
      /\ ~(pData.synth /\ NonEmpty(pParsed.f.name) /\ pData.name = pParsed.f.name)

\* a strategy succeeds when it parses, or assembles, something other than null
Succeeds(r) == r.ok /\ r.v # NoMatch
FirstSuccess(text) ==
  IF Succeeds(Strategy1(text)) THEN 1
  ELSE IF Succeeds(Strategy2(text)) THEN 2
  ELSE IF Succeeds(Strategy3(text)) THEN 3
  ELSE IF Succeeds(Strategy4(text)) THEN 4
  ELSE 0

\* C9 (as claimed): the four strategies are tried in order, a strategy
\* that fails falls through to the next, the result is that of the first
\* one that succeeds, and it is NoMatch exactly when all four fail.
C9_FirstSuccessOrNoMatch ==
  pPhase = "extracted" =>
    LET t == pReply.text
        k == FirstSuccess(t)
    IN  /\ k = 1 => pParsed = Strategy1(t).v
        /\ k = 2 => pParsed = Strategy2(t).v
        /\ k = 3 => pParsed = Strategy3(t).v
        /\ k = 4 => pParsed = Strategy4(t).v
        /\ pParsed = NoMatch <=> k = 0

\* the record as extractJSON returns it
AsParsed(rec) == Top(Obj, [k \in Keys |-> Str(rec[k])])

\* C10 (as claimed): extractJSON gives back every record of four strings
\* from its JSON text, and with name and htmlContent non-empty
\* generateScreenData returns the same four values, not flagged fallback.
C10_RoundTrip ==
  \A rec \in Records :
    pReply = [threw |-> FALSE, text |-> JSONstringify(rec)] =>
      /\ pPhase \in {"extracted", "generated"} => pParsed = AsParsed(rec)
      /\ pPhase = "generated" /\ rec.name # << >> /\ rec.htmlContent # << >> =>
           /\ \A k \in Keys : pData[k] = Str(rec[k])
           /\ ~FallbackFlag(pData)

\* C11 (as claimed): no markup-significant character of the prompt stands
\* unescaped in what generateFallbackHTML returns: between the two parts
\* of the template there is no <, >, & or ".
C11_PromptEscaped ==
  fPhase = "done" =>
    \A i \in 2..(Len(fHtml) - 1) : fHtml[i] \notin {"<", ">", "&", "\""}

\* C18: generateFallbackHTML returns for every string, and between the
\* two parts of its template stands the input itself when it has at most
\* 100 characters (the empty string too), and otherwise its first 100
\* characters followed by "...".
C18_BoundedEcho ==
  /\ fPhase = "input" => ENABLED Synthesize
  /\ fPhase = "done" =>
       LET n      == Len(fPrompt)
           echoed == SubSeq(fHtml, 2, Len(fHtml) - 1)
       IN  /\ Len(fHtml) >= 2
           /\ fHtml[1] = TplHead
           /\ fHtml[Len(fHtml)] = TplTail
           /\ n <= 100 => echoed = fPrompt
           /\ n > 100 => echoed = SubSeq(fPrompt, 1, 100) \o <<".", ".", ".">>

\* a prompt of 101 characters came back as its first 100 and the marker
C18_Witness ==
  /\ fPhase = "done"
  /\ Len(fPrompt) = 101
  /\ fPrompt[101] = "<"
  /\ Len(fHtml) = 105
  /\ fHtml[101] = "a"
  /\ fHtml[102] = "."

\* C12 (as claimed): on the fallback paths of a generate request (the model
\* call failed, or nothing was recovered and no tag found) the content is
\* generateFallbackHTML applied to the caller's own prompt.
C12_FallbackOfUserPrompt ==
  \A r \in Req :
    req[r].modelCalls = 1 /\ req[r].data.via \in {"error", "nomatch"} =>
      req[r].data.htmlContent = Str(generateFallbackHTML(req[r].prompt))

\* C13: when the PromptHistory write of a request fails after its Screen
\* write was accepted, the request answers 500 and the row it created or
\* updated stays as written; no step ever removes a Screen row, and a row
\* changes only when a later Screen write is accepted.
C13_State(r) ==
  LET q == req[r]
  IN  pc[r] = "done" /\ q.screenWrites = 1 /\ q.historyWrites = 0 =>
        /\ q.resp.status = 500
        /\ q.screen.id \in DOMAIN screens
        /\ screens[q.screen.id] = q.screen
C13_Step ==
  \A i \in DOMAIN screens :
    /\ i \in DOMAIN screens'
    /\ screens'[i] # screens[i] =>
         \E r \in Req : pc[r] = "screen" /\ pc'[r] = "history" /\ req'[r].screen = screens'[i]
C13_NoRollback ==
  /\ [](\A r \in Req : C13_State(r))
  /\ [][C13_Step]_vars

\* a screen was created, the log write failed, and the new row is there
C13_Witness ==
  \E r \in Req :
    /\ pc[r] = "done"
    /\ req[r].resp.status = 500
    /\ req[r].screenWrites = 1
    /\ req[r].historyWrites = 0
    /\ ~req[r].screenId.given
    /\ DOMAIN screens = {1, 2, 3}
    /\ screens[3].htmlContent = <<"<div>Login</div>">>

\* C15: no step of a generate request changes a Project row, changes or
\* removes a PromptHistory row that exists, removes a Screen row, or
\* changes the x, y, width or height of a Screen row that exists.
C15_Step ==
  /\ projects' = projects
  /\ Len(promptHistory') >= Len(promptHistory)
  /\ SubSeq(promptHistory', 1, Len(promptHistory)) = promptHistory
  /\ \A i \in DOMAIN screens :
       /\ i \in DOMAIN screens'
       /\ screens'[i].x = screens[i].x
       /\ screens'[i].y = screens[i].y
       /\ screens'[i].width = screens[i].width
       /\ screens'[i].height = screens[i].height
C15_Frame == [][C15_Step]_vars

\* screen 1 was regenerated and answered 200: new content, old place and size
C15_Witness ==
  \E r \in Req :
    /\ pc[r] = "done"
    /\ req[r].resp.status = 200
    /\ req[r].screenId = ScreenIdArg(TRUE, 1)
    /\ screens[1].htmlContent = <<"<div>Login</div>">>
    /\ screens[1].x = 40
    /\ screens[1].y = 20
    /\ screens[1].width = 320
    /\ screens[1].height = 640
    /\ Len(promptHistory) = 1
    /\ projects["P1"].name = <<"A">>

\* the case of C16: generateText returned, extractJSON gave null, and the
\* text holds an angle-bracket match
C16_Case ==
  /\ pPhase = "generated"
  /\ ~pReply.threw
  /\ pParsed = NoMatch
  /\ HtmlOnly(pReply.text) # << >>

\* what C16 says of the record returned: its name, and as htmlContent the
\* first up to 5 matches joined
C16_Record ==
  /\ pData.name = Str(<<"Generated Screen">>)
  /\ pData.htmlContent = Str(JoinLines(Slice(HtmlOnly(pReply.text), 5)))

C17_FieldRecovery ==
  pPhase = "extracted" /\ ReturningStrategy(pReply.text) \notin {1, 2, 3} =>
    LET nameMatch == FieldMatch(pReply.text, KN)
        htmlMatch == HtmlMatch(pReply.text)
        descMatch == FieldMatch(pReply.text, KD)
        cssMatch  == FieldMatch(pReply.text, KC)
    IN  /\ pParsed # NoMatch <=> nameMatch.ok /\ htmlMatch.ok
        /\ nameMatch.ok /\ htmlMatch.ok =>
             /\ pParsed.t = "obj"
             /\ pParsed.f.name = Str(nameMatch.s)
             /\ pParsed.f.htmlContent = Str(htmlMatch.s)
             /\ descMatch.ok => pParsed.f.description = Str(descMatch.s)
             /\ ~descMatch.ok => pParsed.f.description = Str(<< >>)
             /\ cssMatch.ok => pParsed.f.cssContent = Str(cssMatch.s)
             /\ ~cssMatch.ok => pParsed.f.cssContent = Str(<< >>)

\* an object that lost its opening brace: name and htmlContent are
\* recovered field by field, description and cssContent come back empty
C17_Witness ==
  /\ pPhase = "extracted"
  /\ pReply.text = <<KN, SLOGIN, COMMA, KH, SHTML, RBRACE>>
  /\ ReturningStrategy(pReply.text) = 4
  /\ pParsed.f.name = Str(<<"Login">>)
  /\ pParsed.f.htmlContent = Str(<<"<div>Login</div>">>)
  /\ pParsed.f.description = Str(<< >>)
  /\ pParsed.f.cssContent = Str(<< >>)

\* a name is found and no htmlContent: the result is null
C17_WitnessNoMatch ==
  /\ pPhase = "extracted"
  /\ ReturningStrategy(pReply.text) = 0
  /\ FieldMatch(pReply.text, KN).ok
  /\ ~HtmlMatch(pReply.text).ok
  /\ pParsed = NoMatch

\* the timestamps of a list that lie in the window that ends at t: (t - w, t]
InWindow(timestamps, t, w) ==
  {k \in DOMAIN timestamps : timestamps[k] > t - w /\ timestamps[k] <= t}

\* C19: for every identifier and tier, of the calls of check that returned
\* true under the tier at most its requests have timestamps in any window
\* of its windowMs (so at most 10 under strict in any 60000 ms); a call
\* returns false exactly when the identifier's stored timestamps of the
\* last windowMs have reached the limit, and then the store is unchanged.
C19_State ==
  \A i \in Idents, tier \in Tiers :
    LET a == admitted[i][tier]
        c == RATE_LIMITS[tier]
        ends == {a[k] : k \in DOMAIN a}   \* a fullest window ends at a timestamp
    IN  /\ \A t \in ends : Cardinality(InWindow(a, t, c.windowMs)) <= c.requests
        /\ tier = "strict" =>
             \A t \in ends : Cardinality(InWindow(a, t, 60000)) <= 10
C19_Step ==
  calls' = calls + 1 =>
    LET i == lastCall'.identifier
        c == RATE_LIMITS[lastCall'.tier]
        reached == Cardinality(InWindow(limiter[i], now, c.windowMs)) >= c.requests
    IN  /\ lastCall'.allowed <=> ~reached
        /\ ~lastCall'.allowed => limiter' = limiter
C19_WitnessLater ==
  /\ lastCall = [identifier |-> "user:u1", tier |-> "strict", allowed |-> TRUE]
  /\ Len(admitted["user:u1"]["strict"]) = 11
  /\ now = 60000

\* the thirtieth moderate request of the anonymous address was admitted
\* and the next was turned away
C19_WitnessModerate ==
  /\ lastCall = [identifier |-> "ip:anonymous", tier |-> "moderate", allowed |-> FALSE]
  /\ Len(admitted["ip:anonymous"]["moderate"]) = 30

\* C14: two generate requests for the same screenId, in flight together, are
\* not coordinated. A request that has work left can always take its next
\* step, whatever the other one is doing, and it completes; the Screen table
\* keeps its two rows; every accepted update puts the content and the stamp
\* of its own request into the row, whatever the row held, and nothing else
\* changes the row, so that once both are done the row is the one the last
\* update to reach storage wrote.
InFlight(r) == pc[r] \notin {"idle", "done"}
C14_State ==
  /\ DOMAIN screens = {1, 2}
  /\ \A r \in Racers : InFlight(r) => ENABLED Continue(r)
  /\ (\A r \in Racers : pc[r] = "done") =>
       \/ \A r \in Racers : req[r].screenWrites = 0 /\ screens[1].updatedAt = 0
                              /\ screens[1].htmlContent = <<"<main>">>
       \/ \E r \in Racers : req[r].screenWrites = 1 /\ screens[1] = req[r].screen
C14_Step ==
  /\ \A r \in Racers :
       pc[r] = "screen" /\ pc'[r] = "history" =>
         /\ screens'[1].name = req[r].data.name.s
         /\ screens'[1].htmlContent = req[r].data.htmlContent.s
         /\ screens'[1].cssContent = req[r].data.cssContent.s
         /\ screens'[1].updatedAt = req[r].stamp
         /\ req'[r].screen = screens'[1]
         /\ screens'[2] = screens[2]
  /\ screens' # screens =>
       \E r \in Racers : pc[r] = "screen" /\ pc'[r] = "history"
C14_LastWriteWins ==
  /\ []C14_State
  /\ [][C14_Step]_vars
  /\ \A r \in Racers : InFlight(r) ~> (pc[r] = "done")

\* both were answered 200 with different content; request 2, generated a
\* window earlier than request 1, reached storage last, and the row is its
C14_Witness ==
  /\ \A r \in Racers : pc[r] = "done" /\ req[r].resp.status = 200
  /\ req[1].resp.screen.htmlContent # req[2].resp.screen.htmlContent
  /\ req[2].stamp < req[1].stamp
  /\ screens[1] = req[2].resp.screen
  /\ screens[1] # req[1].resp.screen
  /\ DOMAIN screens = {1, 2}

\* C20: a request handler never modifies a screen of a project the caller
\* does not own: the screen a generate request with screenId has updated, and
\* every screen the save request has updated, belongs to the project named by
\* the request's projectId, which the caller owns.
C20_OwnScreensOnly ==
  /\ \A r \in Req :
       req[r].screenWrites = 1 /\ Given(req[r].screenId) =>
         /\ req[r].screen.projectId = req[r].projectId
         /\ projects[req[r].screen.projectId].userId = req[r].userId
  /\ \A i \in sv.updated :
       /\ screens[i].projectId = sv.projectId
       /\ projects[screens[i].projectId].userId = sv.userId

\* how many calls of an identifier, of whatever tier, were admitted in the
\* window (t - w, t]
AdmittedInWindow(i, t, w) ==
  Cardinality(InWindow(admitted[i]["strict"], t, w))
    + Cardinality(InWindow(admitted[i]["moderate"], t, w))
    + Cardinality(InWindow(admitted[i]["lenient"], t, w))

\* C21: the limiter keeps one timestamp list for an identifier, shared by
\* the tiers: the stored timestamps of the last 60000 ms are as many as the
\* calls admitted in that time under the three tiers together, a call under
\* a tier is admitted exactly when those are fewer than the tier's requests,
\* and so a strict call of an identifier with 10 or more admitted calls of
\* any tier in the last 60000 ms is turned away.
C21_State ==
  \A i \in Idents :
    Cardinality(InWindow(limiter[i], now, 60000)) = AdmittedInWindow(i, now, 60000)
C21_Step ==
  calls' = calls + 1 =>
    LET i == lastCall'.identifier
        c == RATE_LIMITS[lastCall'.tier]
    IN  /\ lastCall'.allowed <=> AdmittedInWindow(i, now, 60000) < c.requests
        /\ lastCall'.tier = "strict" /\ AdmittedInWindow(i, now, 60000) >= 10 =>
             ~lastCall'.allowed
C21_SharedList ==
  /\ []C21_State
  /\ [][C21_Step]_vars

\* the anonymous address, with 29 moderate calls and no strict call admitted
\* in the last 60000 ms, was turned away by a strict call
C21_Witness ==
  /\ lastCall = [identifier |-> "ip:anonymous", tier |-> "strict", allowed |-> FALSE]
  /\ admitted["ip:anonymous"]["strict"] = << >>
  /\ admitted["ip:anonymous"]["lenient"] = << >>
  /\ Cardinality(InWindow(admitted["ip:anonymous"]["moderate"], now, 60000)) = 29
  /\ now = 1


=============================================================================
